---- MODULE Spec2Model ----
\* Model of markup.rs: the HTML escaper (markup-proc-macro/src/escape.rs) and
\* the Render / RenderAttributeValue implementations (markup/src/lib.rs).
\* Bytes are modelled by their numeric value, byte strings by sequences.
EXTENDS Integers, Sequences, FiniteSets, TLC

\* ---------------------------------------------------------------- bounds
MaxLen == 3        \* longest input handed to escape
MaxFailAt == 3     \* the sink may fail on write call 1..MaxFailAt (0: never)
MaxCap == 1        \* a sink write call accepts at most 1..MaxCap bytes (0: all)
MaxArity == 3      \* largest tuple arity rendered
MaxChunks == 2     \* chunks written through the Escape adapter
MaxChunkLen == 2   \* longest chunk written through the Escape adapter
MaxFlushes == 1    \* flush calls made on the Escape adapter

\* ---------------------------------------------------------------- bytes
AMP == 38
LT == 60
GT == 62
QUOT == 34
APOS == 39
HIGH == 226
LOWER_A == 97
\* usize arithmetic wraps modulo 2^w; w = 16 is the narrowest usize Rust has
UsizeModulus == 65536

InputBytes == {AMP, LT, GT, QUOT, APOS, LOWER_A, HIGH}

Min(a, b) == IF a < b THEN a ELSE b

RECURSIVE SeqsUpTo(_, _)
SeqsUpTo(S, n) ==
    IF n = 0 THEN {<<>>}
    ELSE LET shorter == SeqsUpTo(S, n - 1)
         IN  shorter \cup {Append(s, b) : s \in {t \in shorter : Len(t) = n - 1}, b \in S}

\* ---------------------------------------------------------------- the sink
\* One call of std::io::Write::write on the sink: the call is counted, the
\* failAt-th call fails and accepts nothing, any other call accepts the whole
\* buffer (cap = 0) or its first cap bytes.
SinkWrite(w, buf) ==
    LET c == w.calls + 1
        n == IF w.cap = 0 THEN Len(buf) ELSE Min(w.cap, Len(buf))
    IN  IF c = w.failAt
        THEN [w |-> [w EXCEPT !.calls = c], ok |-> FALSE, n |-> 0]
        ELSE [w |-> [w EXCEPT !.calls = c, !.buf = @ \o SubSeq(buf, 1, n)],
              ok |-> TRUE, n |-> n]

\* std::io::Write::write_all: write until the buffer is consumed; an error or
\* a write of zero bytes ends it with failure.
RECURSIVE WriteAll(_, _)
WriteAll(w, buf) ==
    IF buf = <<>> THEN [w |-> w, ok |-> TRUE]
    ELSE LET r == SinkWrite(w, buf)
         IN  IF ~r.ok \/ r.n = 0 THEN [w |-> r.w, ok |-> FALSE]
             ELSE WriteAll(r.w, SubSeq(buf, r.n + 1, Len(buf)))

\* ---------------------------------------------------------------- escape
IsReserved(byte) == byte \in {AMP, LT, GT, QUOT}

\* a variant of the match with the entities of < and > exchanged
Entity_swapped(byte) ==
    CASE byte = AMP  -> <<38, 97, 109, 112, 59>>
      [] byte = LT   -> <<38, 103, 116, 59>>
      [] byte = GT   -> <<38, 108, 116, 59>>
      [] byte = QUOT -> <<38, 113, 117, 111, 116, 59>>

\* the match of escape(): the entity written for a reserved byte
Entity(byte) ==
    CASE byte = AMP  -> <<38, 97, 109, 112, 59>>
      [] byte = LT   -> <<38, 108, 116, 59>>
      [] byte = GT   -> <<38, 103, 116, 59>>
      [] byte = QUOT -> <<38, 113, 117, 111, 116, 59>>

\* a variant that moves the run start one byte too far
WrappingAdd1_skipping(i) == (i + 2) % UsizeModulus

\* index.wrapping_add(1)
WrappingAdd1(i) == (i + 1) % UsizeModulus

\* a variant of the slice that drops the last byte of the run
GetUnchecked_short(s, from, to) == SubSeq(s, from + 1, to - 1)

\* str.get_unchecked(from..to): defined only when from <= to <= len
InBounds(s, from, to) == from <= to /\ to <= Len(s)
GetUnchecked(s, from, to) == SubSeq(s, from + 1, to)

\* ---------------------------------------------------------------- values
\* A renderable value is a record tagged with its type (field k).
VBool(b) == [k |-> "bool", v |-> b]
VInt(n) == [k |-> "int", v |-> n]
VFloat(q) == [k |-> "float", v |-> q]       \* the float q / 4
VChar(c) == [k |-> "char", v |-> c]         \* the code point c
VStr(s) == [k |-> "str", v |-> s]           \* &str, String, Cow<str>
VRaw(s) == [k |-> "raw", v |-> s]           \* RawBytes<T>
VNone == [k |-> "none"]                     \* Option::None
VSome(x) == [k |-> "some", v |-> x]         \* Option::Some(x)
VBox(x) == [k |-> "box", v |-> x]           \* Box<T>
VTuple(xs) == [k |-> "tuple", v |-> xs]     \* (A, B, ...)

\* a variant of is_none that answers for the present case
is_none_inverted(v) ==
    CASE v.k = "none" -> FALSE
      [] v.k = "some" -> TRUE
      [] OTHER        -> FALSE

\* RenderAttributeValue::is_none: default false, Option overrides, Box forwards
RECURSIVE is_none(_)
is_none(v) ==
    CASE v.k = "none" -> TRUE
      [] v.k = "some" -> FALSE
      [] v.k = "box"  -> is_none(v.v)
      [] OTHER        -> FALSE

\* RenderAttributeValue::is_true: default false, bool overrides, Box forwards
RECURSIVE is_true(_)
is_true(v) ==
    CASE v.k = "bool" -> v.v
      [] v.k = "box"  -> is_true(v.v)
      [] OTHER        -> FALSE

\* a variant of is_false that returns the value instead of its negation
is_false_unnegated(v) ==
    CASE v.k = "bool" -> v.v
      [] OTHER        -> FALSE

\* RenderAttributeValue::is_false: default false, bool overrides, Box forwards
RECURSIVE is_false(_)
is_false(v) ==
    CASE v.k = "bool" -> ~v.v
      [] v.k = "box"  -> is_false(v.v)
      [] OTHER        -> FALSE

\* the literal written by impl Render for bool
BoolText(b) == IF b THEN <<116, 114, 117, 101>> ELSE <<102, 97, 108, 115, 101>>

\* decimal digits of a natural number, as ASCII
RECURSIVE Digits(_)
Digits(n) == IF n < 10 THEN <<48 + n>> ELSE Append(Digits(n \div 10), 48 + (n % 10))

\* itoa::Buffer::format / Display of an integer
Itoa(n) == IF n < 0 THEN <<45>> \o Digits(-n) ELSE Digits(n)

\* Display of the float q / 4: no fraction part when it is zero
FloatText(q) ==
    LET a == IF q < 0 THEN -q ELSE q
        frac == CASE a % 4 = 0 -> <<>>
                  [] a % 4 = 1 -> <<46, 50, 53>>
                  [] a % 4 = 2 -> <<46, 53>>
                  [] a % 4 = 3 -> <<46, 55, 53>>
    IN  (IF q < 0 THEN <<45>> ELSE <<>>) \o Digits(a \div 4) \o frac

\* char::encode_utf8
EncodeUtf8(c) ==
    CASE c < 128   -> <<c>>
      [] c >= 128 /\ c < 2048 -> <<192 + (c \div 64), 128 + (c % 64)>>
      [] c >= 2048 /\ c < 65536 ->
            <<224 + (c \div 4096), 128 + ((c \div 64) % 64), 128 + (c % 64)>>
      [] OTHER -> <<240 + (c \div 262144), 128 + ((c \div 4096) % 64),
                    128 + ((c \div 64) % 64), 128 + (c % 64)>>

\* a variant that renders the elements last to first
TupleFrames_reversed(xs, path) ==
    [i \in 1..Len(xs) |-> [v |-> xs[Len(xs) + 1 - i], path |-> Append(path, Len(xs) + 1 - i)]]

\* the frames a tuple's render pushes: one per element, in declared order
TupleFrames(xs, path) == [i \in 1..Len(xs) |-> [v |-> xs[i], path |-> Append(path, i)]]

\* a variant without the `?`: the error is dropped and the render goes on
Try_ignoring(ok, rest) ==
    [result |-> IF rest = <<>> THEN "ok" ELSE "running", stack |-> rest]

\* the effect of `expr?; ...` on the rest of the render: an error unwinds
\* every pending render, success goes on with the rest (Ok(()) when none)
Try(ok, rest) ==
    IF ~ok THEN [result |-> "err", stack |-> <<>>]
    ELSE [result |-> IF rest = <<>> THEN "ok" ELSE "running", stack |-> rest]

\* ---------------------------------------------------------------- inputs
Texts == {<<>>, <<LOWER_A>>, <<LT, LOWER_A>>, <<AMP, 226, 137, 164>>}
Leaves ==
    {VBool(b) : b \in BOOLEAN} \cup {VInt(n) : n \in {0, 42, 105}}
    \cup {VFloat(q) : q \in {6, 8}} \cup {VChar(c) : c \in {LT, 233, 8804}}
    \cup {VStr(s) : s \in Texts} \cup {VRaw(s) : s \in {<<LT, 98, GT>>}}
Wrap(S) == S \cup {VSome(x) : x \in S} \cup {VBox(x) : x \in S} \cup {VNone}
TupleElems ==
    {VBool(TRUE), VInt(42), VStr(<<LOWER_A, LT>>), VNone,
     VSome(VStr(<<AMP>>)), VBox(VBool(FALSE))}
Tuples == {VTuple(xs) : xs \in SeqsUpTo(TupleElems, MaxArity) \ {<<>>}}
Values ==
    Wrap(Wrap(Leaves)) \cup Tuples
    \cup {VTuple(<<VTuple(<<VStr(<<QUOT>>), VInt(7)>>), VBool(FALSE)>>),
          VBox(VTuple(<<VBool(TRUE)>>))}
ChunkBytes == {LT, LOWER_A}
Chunks == SeqsUpTo(ChunkBytes, MaxChunkLen)

VARIABLES
    op,        \* the entry point called: "escape", "render", "query", "adapter"
    arg,       \* its argument: the input bytes / the value
    itoa,      \* whether the build enables the "itoa" feature
    writer,    \* the sink: [buf, calls, failAt, cap, flushed]
    wlog,      \* the buffers handed to write_all / write, in call order
    str,       \* escape(): the input slice
    index,     \* escape(): the loop position
    last,      \* escape(): start of the current unescaped run
    pc,        \* escape(): "idle", "scan" or "entity"
    ub,        \* TRUE once an unchecked slice access was out of bounds
    stack,     \* render(): the renders still to run, innermost first
    invoked,   \* render(): the paths of the values whose render was invoked
    preds,     \* the answers of is_none / is_true / is_false, once queried
    written,   \* Escape adapter: the chunks passed to write, in order
    consumed,  \* Escape adapter: the lengths the writes returned
    result     \* "running", "ok" or "err"

vars == <<op, arg, itoa, writer, wlog, str, index, last, pc, ub, stack, invoked,
          preds, written, consumed, result>>

NewWriter(f, c) == [buf |-> <<>>, calls |-> 0, failAt |-> f, cap |-> c, flushed |-> 0]

InitEscape ==
    /\ op = "escape"
    /\ arg \in SeqsUpTo(InputBytes, MaxLen)
    /\ itoa = FALSE
    /\ str = arg /\ pc = "scan"
    /\ stack = <<>>

InitRender ==
    /\ op = "render"
    /\ arg \in Values
    /\ itoa \in BOOLEAN
    /\ str = <<>> /\ pc = "idle"
    /\ stack = <<[v |-> arg, path |-> <<>>]>>

InitQuery ==
    /\ op = "query"
    /\ arg \in Values
    /\ itoa = FALSE
    /\ str = <<>> /\ pc = "idle"
    /\ stack = <<>>

InitAdapter ==
    /\ op = "adapter"
    /\ arg = <<>>
    /\ itoa = FALSE
    /\ str = <<>> /\ pc = "idle"
    /\ stack = <<>>

Init ==
    /\ \E f \in 0..MaxFailAt, c \in 0..MaxCap : writer = NewWriter(f, c)
    /\ wlog = <<>>
    /\ index = 0 /\ last = 0
    /\ ub = FALSE
    /\ invoked = <<>>
    /\ preds = [queried |-> FALSE, isNone |-> FALSE, isTrue |-> FALSE, isFalse |-> FALSE]
    /\ written = <<>>
    /\ consumed = <<>>
    /\ result = "running"
    /\ (InitEscape \/ InitRender \/ InitQuery \/ InitAdapter)

\* ---------------------------------------------------------------- escape()
\* a variant whose Escape::write reports the bytes now held by the inner sink
EscapeReturn_sinkLen(ok) ==
    /\ pc' = "idle"
    /\ CASE op = "render" ->
              /\ stack' = Try(ok, stack).stack
              /\ result' = Try(ok, stack).result
              /\ UNCHANGED consumed
         [] op = "adapter" ->
              /\ consumed' = IF ok THEN Append(consumed, Len(writer'.buf)) ELSE consumed
              /\ result' = IF ok THEN "running" ELSE "err"
              /\ UNCHANGED stack
         [] OTHER ->
              /\ result' = IF ok THEN "ok" ELSE "err"
              /\ UNCHANGED <<stack, consumed>>

\* what the caller of escape() does with its return value: the caller of the
\* free function keeps it, `escape(..)?; Ok(())` of impl Render for &str goes
\* on with the pending renders, Escape::write maps Ok to s.len()
EscapeReturn(ok) ==
    /\ pc' = "idle"
    /\ CASE op = "render" ->
              /\ stack' = Try(ok, stack).stack
              /\ result' = Try(ok, stack).result
              /\ UNCHANGED consumed
         [] op = "adapter" ->
              /\ consumed' = IF ok THEN Append(consumed, Len(str)) ELSE consumed
              /\ result' = IF ok THEN "running" ELSE "err"
              /\ UNCHANGED stack
         [] OTHER ->
              /\ result' = IF ok THEN "ok" ELSE "err"
              /\ UNCHANGED <<stack, consumed>>

\* a loop iteration on a byte that is not reserved: `_ => {}`
EscapeSkip ==
    /\ pc = "scan" /\ index < Len(str)
    /\ ~IsReserved(str[index + 1])
    /\ index' = index + 1
    /\ UNCHANGED <<op, arg, itoa, writer, wlog, str, last, pc, ub, stack, invoked,
                   preds, written, consumed, result>>

\* go!: writer.write_all(&str.get_unchecked(last..index))?
EscapeFlushRun ==
    /\ pc = "scan" /\ index < Len(str)
    /\ IsReserved(str[index + 1])
    /\ ub' = (ub \/ ~InBounds(str, last, index))
    /\ \E run \in IF InBounds(str, last, index)
                  THEN {GetUnchecked(str, last, index)}
                  ELSE SeqsUpTo(InputBytes, 1) :
          LET r == WriteAll(writer, run)
          IN  /\ writer' = r.w
              /\ wlog' = Append(wlog, run)
              /\ IF r.ok THEN pc' = "entity" /\ UNCHANGED <<result, stack, consumed>>
                         ELSE EscapeReturn(FALSE)
    /\ UNCHANGED <<op, arg, itoa, str, index, last, invoked, preds, written>>

\* go!: writer.write_all($expr)?; last = index.wrapping_add(1); next iteration
EscapeEntity ==
    /\ pc = "entity"
    /\ LET r == WriteAll(writer, Entity(str[index + 1]))
       IN  /\ writer' = r.w
           /\ wlog' = Append(wlog, Entity(str[index + 1]))
           /\ IF r.ok
              THEN /\ last' = WrappingAdd1(index)
                   /\ index' = index + 1
                   /\ pc' = "scan"
                   /\ UNCHANGED <<result, stack, consumed>>
              ELSE /\ EscapeReturn(FALSE)
                   /\ UNCHANGED <<last, index>>
    /\ UNCHANGED <<op, arg, itoa, str, ub, invoked, preds, written>>

\* after the loop: writer.write_all(str.get_unchecked(last..))
EscapeFinal ==
    /\ pc = "scan" /\ index = Len(str)
    /\ ub' = (ub \/ ~InBounds(str, last, Len(str)))
    /\ \E run \in IF InBounds(str, last, Len(str))
                  THEN {GetUnchecked(str, last, Len(str))}
                  ELSE SeqsUpTo(InputBytes, 1) :
          LET r == WriteAll(writer, run)
          IN  /\ writer' = r.w
              /\ wlog' = Append(wlog, run)
              /\ EscapeReturn(r.ok)
    /\ UNCHANGED <<op, arg, itoa, str, index, last, invoked, preds, written>>

\* ---------------------------------------------------------------- Escape<W>
\* Escape::write(s): escape(s, &mut self.0).map(|()| s.len())
EscapeWrite ==
    /\ op = "adapter" /\ pc = "idle" /\ result = "running"
    /\ Len(written) < MaxChunks
    /\ \E s \in Chunks :
          /\ written' = Append(written, s)
          /\ str' = s
    /\ index' = 0 /\ last' = 0 /\ pc' = "scan"
    /\ UNCHANGED <<op, arg, itoa, writer, wlog, ub, stack, invoked, preds,
                   consumed, result>>

\* Escape::flush(): self.0.flush()
EscapeFlush ==
    /\ op = "adapter" /\ pc = "idle" /\ result = "running"
    /\ writer.flushed < MaxFlushes
    /\ writer' = [writer EXCEPT !.flushed = @ + 1]
    /\ UNCHANGED <<op, arg, itoa, wlog, str, index, last, pc, ub, stack, invoked,
                   preds, written, consumed, result>>

\* ---------------------------------------------------------------- render()
Rendering(kinds) ==
    /\ op = "render" /\ pc = "idle" /\ result = "running"
    /\ stack # <<>>
    /\ Head(stack).v.k \in kinds

\* a render that is one writer.write_all(bytes)?; Ok(())
RenderWriteAll(bytes) ==
    LET r == WriteAll(writer, bytes)
        t == Try(r.ok, Tail(stack))
    IN  /\ writer' = r.w
        /\ wlog' = Append(wlog, bytes)
        /\ stack' = t.stack
        /\ result' = t.result
        /\ invoked' = Append(invoked, Head(stack).path)
        /\ UNCHANGED <<op, arg, itoa, str, index, last, pc, ub, preds, written, consumed>>

\* a render that only hands over to other renders
RenderDelegate(frames) ==
    /\ stack' = frames \o Tail(stack)
    /\ result' = IF stack' = <<>> THEN "ok" ELSE "running"
    /\ invoked' = Append(invoked, Head(stack).path)
    /\ UNCHANGED <<op, arg, itoa, writer, wlog, str, index, last, pc, ub, preds,
                   written, consumed>>

\* impl Render for bool
RenderBool == Rendering({"bool"}) /\ RenderWriteAll(BoolText(Head(stack).v.v))

\* impl Render for RawBytes<T>
RenderRawBytes == Rendering({"raw"}) /\ RenderWriteAll(Head(stack).v.v)

\* impl Render for char
RenderChar == Rendering({"char"}) /\ RenderWriteAll(EncodeUtf8(Head(stack).v.v))

\* impl Render for f32, f64: write!(writer, "{}", self)?
RenderFloat == Rendering({"float"}) /\ RenderWriteAll(FloatText(Head(stack).v.v))

\* impl Render for the integer types: with the itoa feature a single
\* writer.write(..)? whose returned count is dropped, else write!(..)?
RenderInt ==
    /\ Rendering({"int"})
    /\ IF itoa
       THEN LET bytes == Itoa(Head(stack).v.v)
                r == SinkWrite(writer, bytes)
                t == Try(r.ok, Tail(stack))
            IN  /\ writer' = r.w
                /\ wlog' = Append(wlog, bytes)
                /\ stack' = t.stack
                /\ result' = t.result
                /\ invoked' = Append(invoked, Head(stack).path)
                /\ UNCHANGED <<op, arg, itoa, str, index, last, pc, ub, preds,
                               written, consumed>>
       ELSE RenderWriteAll(Itoa(Head(stack).v.v))

\* impl Render for &str (String and Cow<str> forward to it): escape::escape(..)?
RenderStr ==
    /\ Rendering({"str"})
    /\ str' = Head(stack).v.v
    /\ index' = 0 /\ last' = 0 /\ pc' = "scan"
    /\ stack' = Tail(stack)
    /\ invoked' = Append(invoked, Head(stack).path)
    /\ UNCHANGED <<op, arg, itoa, writer, wlog, ub, preds, written, consumed, result>>

\* impl Render for Option<T>: Some(t) => t.render(writer), None => Ok(())
RenderOption ==
    /\ Rendering({"some", "none"})
    /\ RenderDelegate(IF Head(stack).v.k = "some"
                      THEN <<[v |-> Head(stack).v.v, path |-> Head(stack).path]>>
                      ELSE <<>>)

\* impl Render for Box<T>: T::render(*self, writer)
RenderBox ==
    /\ Rendering({"box"})
    /\ RenderDelegate(<<[v |-> Head(stack).v.v, path |-> Head(stack).path]>>)

\* tuple_impl!: $($ident.render(writer)?;)+ Ok(())
RenderTuple ==
    /\ Rendering({"tuple"})
    /\ RenderDelegate(TupleFrames(Head(stack).v.v, Head(stack).path))

\* the attribute code asks is_none / is_true / is_false of a value
QueryAttribute ==
    /\ op = "query" /\ ~preds.queried
    /\ preds' = [queried |-> TRUE, isNone |-> is_none(arg),
                 isTrue |-> is_true(arg), isFalse |-> is_false(arg)]
    /\ result' = "ok"
    /\ UNCHANGED <<op, arg, itoa, writer, wlog, str, index, last, pc, ub, stack,
                   invoked, written, consumed>>

Next ==
    \/ EscapeSkip \/ EscapeFlushRun \/ EscapeEntity \/ EscapeFinal
    \/ EscapeWrite \/ EscapeFlush
    \/ RenderBool \/ RenderRawBytes \/ RenderChar \/ RenderFloat \/ RenderInt
    \/ RenderStr \/ RenderOption \/ RenderBox \/ RenderTuple
    \/ QueryAttribute

Spec == Init /\ [][Next]_vars

\* ---------------------------------------------------------------- reference
\* The escaping table of the specification, written out independently of the
\* code's match.
RefReserved == {38, 60, 62, 34}
RefEntity(byte) ==
    CASE byte = 38 -> <<38, 97, 109, 112, 59>>            \* &amp;
      [] byte = 60 -> <<38, 108, 116, 59>>                \* &lt;
      [] byte = 62 -> <<38, 103, 116, 59>>                \* &gt;
      [] byte = 34 -> <<38, 113, 117, 111, 116, 59>>      \* &quot;

\* the input with every reserved byte replaced by its entity
RECURSIVE Escaped(_)
Escaped(s) ==
    IF s = <<>> THEN <<>>
    ELSE (IF Head(s) \in RefReserved THEN RefEntity(Head(s)) ELSE <<Head(s)>>)
         \o Escaped(Tail(s))

RECURSIVE Flatten(_)
Flatten(ss) == IF ss = <<>> THEN <<>> ELSE Head(ss) \o Flatten(Tail(ss))

IsPrefix(p, s) == Len(p) <= Len(s) /\ p = SubSeq(s, 1, Len(p))

CountReserved(s) == Cardinality({i \in 1..Len(s) : s[i] \in RefReserved})

\* the complete textual output of a value
RECURSIVE RenderOut(_)
RenderOut(v) ==
    CASE v.k = "bool"  -> IF v.v THEN <<116, 114, 117, 101>> ELSE <<102, 97, 108, 115, 101>>
      [] v.k = "int"   -> Itoa(v.v)
      [] v.k = "float" -> FloatText(v.v)
      [] v.k = "char"  -> EncodeUtf8(v.v)
      [] v.k = "str"   -> Escaped(v.v)
      [] v.k = "raw"   -> v.v
      [] v.k = "none"  -> <<>>
      [] v.k = "some"  -> RenderOut(v.v)
      [] v.k = "box"   -> RenderOut(v.v)
      [] v.k = "tuple" -> Flatten([i \in 1..Len(v.v) |-> RenderOut(v.v[i])])

\* values built from text, tuples, options and boxes only
RECURSIVE TextBuilt(_)
TextBuilt(v) ==
    CASE v.k \in {"str", "none"} -> TRUE
      [] v.k \in {"some", "box"} -> TextBuilt(v.v)
      [] v.k = "tuple" -> \A i \in 1..Len(v.v) : TextBuilt(v.v[i])
      [] OTHER -> FALSE

\* Rendering taken as one step: the sink, the log of buffers and the outcome
\* after rendering v from the state st = [w, log, ok].
BigWrite(st, bytes, all) ==
    IF ~st.ok THEN st
    ELSE LET r == IF all THEN WriteAll(st.w, bytes) ELSE SinkWrite(st.w, bytes)
         IN  [w |-> r.w, log |-> Append(st.log, bytes), ok |-> r.ok]

RECURSIVE BigEscape(_, _, _, _)
BigEscape(st, s, i, l) ==
    IF ~st.ok THEN st
    ELSE IF i = Len(s) THEN BigWrite(st, SubSeq(s, l + 1, Len(s)), TRUE)
    ELSE IF s[i + 1] \in RefReserved
         THEN BigEscape(BigWrite(BigWrite(st, SubSeq(s, l + 1, i), TRUE),
                                 RefEntity(s[i + 1]), TRUE), s, i + 1, i + 1)
         ELSE BigEscape(st, s, i + 1, l)

RECURSIVE BigRender(_, _, _)
RECURSIVE BigRenderSeq(_, _, _, _)
BigRender(st, v, it) ==
    IF ~st.ok THEN st
    ELSE CASE v.k = "bool"  -> BigWrite(st, RenderOut(v), TRUE)
           [] v.k = "int"   -> BigWrite(st, RenderOut(v), ~it)
           [] v.k = "float" -> BigWrite(st, RenderOut(v), TRUE)
           [] v.k = "char"  -> BigWrite(st, RenderOut(v), TRUE)
           [] v.k = "raw"   -> BigWrite(st, v.v, TRUE)
           [] v.k = "str"   -> BigEscape(st, v.v, 0, 0)
           [] v.k = "none"  -> st
           [] v.k = "some"  -> BigRender(st, v.v, it)
           [] v.k = "box"   -> BigRender(st, v.v, it)
           [] v.k = "tuple" -> BigRenderSeq(st, v.v, 1, it)
BigRenderSeq(st, xs, i, it) ==
    IF i > Len(xs) THEN st
    ELSE BigRenderSeq(BigRender(st, xs[i], it), xs, i + 1, it)

BigStart(f, c) == [w |-> NewWriter(f, c), log |-> <<>>, ok |-> TRUE]

\* what v writes when rendered alone on a sink like the current one that never fails
Solo(v) == BigRender(BigStart(0, writer.cap), v, itoa).w.buf

\* ---------------------------------------------------------------- claims

\* C1: on a sink that never fails escape returns success and the sink holds
\* the input with exactly & < > " replaced by their entities, every other
\* byte (apostrophe, bytes >= 0x80) unchanged and in place.
C1_EscapeSubstitutes ==
    (op = "escape" /\ writer.failAt = 0) =>
        /\ result # "err"
        /\ result = "ok" => writer.buf = Escaped(arg)

C1_Witness ==
    /\ op = "escape" /\ writer.failAt = 0 /\ result = "ok"
    /\ arg = <<LT, APOS, GT>>
    /\ writer.buf = <<38, 108, 116, 59, 39, 38, 103, 116, 59>>

C1_WitnessHighByte ==
    /\ op = "escape" /\ writer.failAt = 0 /\ result = "ok"
    /\ arg = <<QUOT, HIGH, AMP>>

\* C2: when the sink fails on its Nth write during escape, or during the
\* render of a value built from text, tuples, options and boxes, the call
\* returns the failure, the failing write is the last one attempted, and the
\* bytes accepted so far are a prefix of the output on a non-failing sink.
C2_InScope == op = "escape" \/ (op = "render" /\ TextBuilt(arg))
C2_Expected == IF op = "escape" THEN Escaped(arg) ELSE RenderOut(arg)
C2_FailureStopsWriting ==
    C2_InScope =>
        /\ (writer.failAt > 0 /\ writer.calls >= writer.failAt) => result = "err"
        /\ result = "err" =>
              /\ writer.failAt > 0
              /\ writer.calls = writer.failAt
              /\ IsPrefix(writer.buf, C2_Expected)

C2_Witness ==
    /\ op = "render" /\ arg.k = "tuple" /\ TextBuilt(arg)
    /\ result = "err" /\ writer.failAt = 3 /\ writer.buf # <<>>

\* C3: a tuple renders its elements in declared order; on success the sink
\* holds the concatenation of the elements' individual outputs in that order;
\* when an element fails the tuple's render fails and no later element's
\* render is invoked.
C3_Firsts == [i \in 1..(Len(invoked) - 1) |-> invoked[i + 1][1]]
C3_TupleState ==
    (op = "render" /\ arg.k = "tuple") =>
        /\ \A i, j \in 1..Len(C3_Firsts) : i < j => C3_Firsts[i] <= C3_Firsts[j]
        /\ \A i \in 1..Len(C3_Firsts) : \A e \in 1..C3_Firsts[i] :
              \E j \in 1..i : C3_Firsts[j] = e
        /\ result = "ok" =>
              /\ writer.buf = Flatten([i \in 1..Len(arg.v) |-> Solo(arg.v[i])])
              /\ {C3_Firsts[i] : i \in 1..Len(C3_Firsts)} = 1..Len(arg.v)
C3_TupleOrder ==
    /\ []C3_TupleState
    /\ [][result = "err" => (invoked' = invoked /\ result' = "err"
                             /\ writer' = writer)]_vars

C3_Witness ==
    /\ op = "render" /\ arg.k = "tuple" /\ Len(arg.v) = MaxArity
    /\ result = "err" /\ invoked # <<>>
    /\ invoked[Len(invoked)] = <<2>>
    /\ writer.buf # <<>>

C3_WitnessOk ==
    /\ op = "render" /\ arg.k = "tuple" /\ Len(arg.v) = MaxArity
    /\ result = "ok" /\ arg.v[1] # arg.v[2] /\ Solo(arg.v[1]) # Solo(arg.v[2])

\* C4: for a boolean b, is_true(b) = b and is_false(b) = ~b (exactly one
\* holds), is_none(b) is false, the predicates write nothing and leave b
\* unchanged; render(b) writes the literal true or false.
C4_BoolState ==
    /\ (op = "query" /\ arg.k = "bool" /\ preds.queried) =>
          /\ preds.isTrue = arg.v
          /\ preds.isFalse = ~arg.v
          /\ preds.isTrue # preds.isFalse
          /\ ~preds.isNone
          /\ writer.buf = <<>> /\ writer.calls = 0 /\ wlog = <<>>
    /\ (op = "render" /\ arg.k = "bool" /\ result = "ok") =>
          writer.buf = IF arg.v THEN <<116, 114, 117, 101>>
                                ELSE <<102, 97, 108, 115, 101>>
C4_Bool ==
    /\ []C4_BoolState
    /\ [][arg' = arg]_vars

C4_Witness ==
    /\ op = "query" /\ arg = VBool(FALSE) /\ preds.queried /\ preds.isFalse

C4_WitnessRender ==
    /\ op = "render" /\ arg = VBool(TRUE) /\ result = "ok"

\* C5: for an optional value o, is_none(o) holds iff o is absent and is_true,
\* is_false are false in both cases; rendering a present o makes exactly
\* the sink writes and has the result of rendering the contained value;
\* rendering an absent o succeeds without any sink write.
C5_Contained == BigRender(BigStart(writer.failAt, writer.cap), arg.v, itoa)
C5_Option ==
    /\ (op = "query" /\ arg.k \in {"some", "none"} /\ preds.queried) =>
          /\ preds.isNone = (arg.k = "none")
          /\ ~preds.isTrue
          /\ ~preds.isFalse
    /\ (op = "render" /\ arg.k = "some" /\ result # "running" /\ pc = "idle") =>
          /\ writer = C5_Contained.w
          /\ wlog = C5_Contained.log
          /\ (result = "ok") = C5_Contained.ok
    /\ (op = "render" /\ arg.k = "none") =>
          /\ result # "err"
          /\ writer.calls = 0 /\ writer.buf = <<>> /\ wlog = <<>>
          /\ invoked # <<>> => result = "ok"

C5_Witness ==
    /\ op = "query" /\ arg = VSome(VBool(TRUE)) /\ preds.queried /\ ~preds.isNone

C5_WitnessNone ==
    /\ op = "query" /\ arg = VNone /\ preds.queried /\ preds.isNone

C5_WitnessRender ==
    /\ op = "render" /\ arg = VSome(VStr(<<LT, LOWER_A>>)) /\ result = "ok"

C5_WitnessRenderNone ==
    /\ op = "render" /\ arg = VNone /\ result = "ok"

\* C6: a wrapper of exactly one attribute value, Box<T> or the one-element
\* tuple (T,), answers is_none, is_true and is_false as the wrapped value does.
C6_Wrapped == IF arg.k = "box" THEN arg.v ELSE arg.v[1]
C6_WrappersForward ==
    (/\ op = "query" /\ preds.queried
     /\ (arg.k = "box" \/ (arg.k = "tuple" /\ Len(arg.v) = 1))) =>
        /\ preds.isNone = is_none(C6_Wrapped)
        /\ preds.isTrue = is_true(C6_Wrapped)
        /\ preds.isFalse = is_false(C6_Wrapped)

\* C7: on a non-failing sink escape hands the sink at most 2k + 1 buffers for
\* an input with k reserved characters; when k = 0 exactly one, the whole
\* input; for the empty input exactly one, the empty run.
C7_WriteCount ==
    (op = "escape" /\ writer.failAt = 0) =>
        /\ Len(wlog) <= 2 * CountReserved(arg) + 1
        /\ result = "ok" =>
              /\ CountReserved(arg) = 0 => wlog = <<arg>>
              /\ arg = <<>> => wlog = << <<>> >>

C7_Witness ==
    /\ op = "escape" /\ writer.failAt = 0 /\ result = "ok"
    /\ arg = <<LOWER_A, APOS, HIGH>> /\ Len(wlog) = 1

C7_WitnessEmpty ==
    /\ op = "escape" /\ writer.failAt = 0 /\ result = "ok"
    /\ arg = <<>> /\ Len(wlog) = 1

C7_WitnessMax ==
    /\ op = "escape" /\ writer.failAt = 0 /\ result = "ok"
    /\ CountReserved(arg) = MaxLen /\ Len(wlog) = 2 * MaxLen + 1

\* C8: chunks written one after another through the Escape adapter over a
\* non-failing inner sink leave in it the escape of their concatenation,
\* each write returns the length of its unescaped chunk, and flush only
\* forwards to the inner sink's flush.
C8_AdapterState ==
    (op = "adapter" /\ writer.failAt = 0) =>
        /\ result = "running"
        /\ pc = "idle" =>
              /\ writer.buf = Escaped(Flatten(written))
              /\ consumed = [i \in 1..Len(written) |-> Len(written[i])]
C8_Adapter ==
    /\ []C8_AdapterState
    /\ [][writer'.flushed # writer.flushed =>
             /\ writer' = [writer EXCEPT !.flushed = @ + 1]
             /\ UNCHANGED <<wlog, written, consumed, result, pc>>]_vars

C8_Witness ==
    /\ op = "adapter" /\ writer.failAt = 0 /\ pc = "idle"
    /\ written = <<(<<LOWER_A, LT>>), (<<LT>>)>>
    /\ consumed = <<2, 1>>
    /\ writer.flushed = 1

\* C9: whenever render returns success the sink has received the value's
\* complete textual output exactly once, also on a sink whose write call
\* accepts only part of the buffer; a successful integer render has delivered
\* every digit.
C9_SuccessIsComplete ==
    (op = "render" /\ result = "ok") => writer.buf = RenderOut(arg)

\* C10: the run cursor of the escape scan satisfies last <= index <= n at
\* every step, index < n at each run flush, last = index + 1 <= n after each
\* reserved character, so no unchecked slice access leaves the input.
C10_CursorInBounds ==
    /\ last <= index /\ index <= Len(str)
    /\ ~ub
    /\ pc = "entity" => index < Len(str)
    /\ (pc = "scan" /\ index > 0 /\ IsReserved(str[index])) => last = index

C10_Witness ==
    /\ op = "escape" /\ pc = "scan" /\ Len(str) = MaxLen
    /\ index = MaxLen /\ last = MaxLen

C10_WitnessRun ==
    /\ op = "escape" /\ pc = "entity" /\ last = 1 /\ index = 2
====
